---- MODULE Spec2Model ----
(***************************************************************************)
(* Dialogue orchestration of the Sierra Outfitters agent: SierraAgent      *)
(* (agent/conversation.py) together with the helpers it calls on itself    *)
(* (agent/utils/agent_utils.py, order_utils.py, product_utils.py) and the  *)
(* data services (agent/services/orders.py, products.py).                  *)
(*                                                                         *)
(* One call of process_message is a turn.  A turn is a chain of steps, one *)
(* per stretch of code between two awaited external calls; pc names the    *)
(* external call the turn is suspended at ("idle": no turn in progress).   *)
(* The answers of the language model and of the data services are inputs,  *)
(* drawn from small sets when the call returns.                            *)
(*                                                                         *)
(* The handlers of conversation.py call _send_response, _detect_intent_llm,*)
(* _handle_order_info_gathering and _handle_product_info_gathering on      *)
(* self; they are the methods of AgentUtilsMixin, OrderUtilsMixin and      *)
(* ProductUtilsMixin, modelled as methods of the one agent object.         *)
(* The texts are those of the source, without their emoji.                 *)
(*                                                                         *)
(* Spec is a session driven by main.chat_loop, one call after the other.   *)
(* SpecEval is a session driven by the evaluation harness                  *)
(* (evals/metrics.py), whose two asyncio tasks take turns at awaited       *)
(* calls; the frame of the task that is not running is kept in `other`.    *)
(* SpecPromo is handle_early_risers_promotion called on its own.           *)
(***************************************************************************)
EXTENDS Integers, Sequences, FiniteSets, TLC

VARIABLES
    conversation_history,  \* SierraAgent.conversation_history
    state,                 \* SierraAgent.state (AgentState)
    current_intent,        \* SierraAgent.current_intent (Intent)
    collected_info,        \* SierraAgent.collected_info (dict)
    pc,                    \* where the turn in progress is suspended
    locals,                \* local variables of the suspended frame
    response,              \* value returned by the last finished process_message
    turns,                 \* number of process_message calls started
    turn_start,            \* state, intent and slots when the turn started
    events,                \* what the turn in progress (or the last one) did, in order
    other                  \* frame of the asyncio task that is not running

vars == <<conversation_history, state, current_intent, collected_info, pc,
          locals, response, turns, turn_start, events, other>>

----------------------------------------------------------------------------
\* Bounds and input sets

MaxTurns == 3

\* Python's None
None == "None"

\* Python truthiness of an Optional[str]
Truthy(v) == v # None /\ v # ""

UserMessages == {"", "hello"}

OrderNumbers == {"#W001", "#W999"}
Emails == {"nobody@example.com"}

----------------------------------------------------------------------------
\* Enumerations

WELCOME == "WELCOME"
INTENT_DETECTION == "INTENT_DETECTION"
INFO_GATHERING == "INFO_GATHERING"
DATA_RETRIEVAL == "DATA_RETRIEVAL"
AgentState == {WELCOME, INTENT_DETECTION, INFO_GATHERING, DATA_RETRIEVAL}

ORDER_STATUS == "ORDER_STATUS"
PRODUCT_RECOMMENDATIONS == "PRODUCT_RECOMMENDATIONS"
PROMOTIONS == "PROMOTIONS"
NONE == "NONE"
Intent == {NONE, ORDER_STATUS, PRODUCT_RECOMMENDATIONS, PROMOTIONS}

----------------------------------------------------------------------------
\* Texts.  A text is the sentence of the source together with the values
\* its f-string interpolates, in order.

Msg(text, args) == [text |-> text, args |-> args]

welcome_msg ==
    Msg("Welcome, I am Sierra Outfitters agent. You can ask about the status of an order, product recommendations, or potential promotions. What would you like to request?", <<>>)

process_message_fallback ==
    Msg("I'm sorry, I'm having trouble understanding. Could you please try again?", <<>>)

clarification_msg ==
    Msg("I'm not quite sure what you would like me to help with. You can ask about the status of an order, product recommendations, or potential promotions. What would you like to request?", <<>>)

promotions_msg ==
    Msg("We currently have several promotions running. Would you like to hear about seasonal discounts, member-only offers, or bundle deals?", <<>>)

intent_fallback_msg ==
    Msg("I understand you're interested in something, but I'm not sure what specifically. You can ask about the status of an order, product recommendations, or potential promotions. What would you like to request?", <<>>)

info_fallback_msg ==
    Msg("I'm not sure what information I need. Let's start over. What would you like help with?", <<>>)

order_found_msg(order_number, tracking_info, status_text, context) ==
    Msg("Here's the information for your order {order_number}.{tracking_info} {status_text}.\n\n{context}\n\nCan I help you with anything else?",
        <<order_number, tracking_info, status_text>> \o context)

order_error_msg(order_number, email) ==
    Msg("Sorry, I couldn't find an order with number {order_number} for email {email}. Please double check and try again.",
        <<order_number, email>>)

missing_info_msg ==
    Msg("I'm missing some necessary information to check your order. Let's start over. Please provide your order number and email address.", <<>>)

promo_msg ==
    Msg("We have several promotions running this month! Enjoy 20% off all hiking gear, free shipping on orders over $75, and buy-one-get-one 50% off on select clothing items. Would you like more information on any of these promotions?", <<>>)

retrieval_fallback_msg ==
    Msg("I'm sorry, I wasn't able to retrieve the information you requested. Let's try something else. What would you like to know about?", <<>>)

\* the reply of the outer `except Exception` of _handle_data_retrieval
retrieval_error_msg ==
    Msg("I apologize, but I encountered an error while trying to retrieve your information. Let's try again. What would you like to know about?", <<>>)

info_request_both_msg ==
    Msg("To check your order status, I'll need your order number and email address. Can you please provide this information?", <<>>)

info_request_order_number_msg(email) ==
    Msg("I have your email address ({email}), but I still need your order number (starts with #W). Could you please provide it?", <<email>>)

info_request_email_msg(order_number) ==
    Msg("I have your order number ({order_number}), but I still need the email address associated with this order. Could you please provide it?", <<order_number>>)

product_error_msg ==
    Msg("I'm having trouble accessing our product information right now. Could you please try again later?", <<>>)

prompt_msg ==
    Msg("Please provide me more details about what you're looking for. I can help you find products!", <<>>)

no_match_msg ==
    Msg("I couldn't find any products matching your criteria. Could you please provide more details about what you're looking for? For example, what type of activity, features, or categories are important to you?", <<>>)

generation_error_text ==
    "I found some products that might interest you, but I'm having trouble retrieving the details right now. Can you please try again?"

\* one decimal digit as a character
Digit(n) == ToString(n)

\* datetime.strftime('%I:%M %p'), as the sequence of its characters and the
\* AM/PM mark
strftime(hour, minute) ==
    LET hour12 == IF hour % 12 = 0 THEN 12 ELSE hour % 12
    IN  <<Digit(hour12 \div 10), Digit(hour12 % 10), ":",
          Digit(minute \div 10), Digit(minute % 10), " ",
          IF hour < 12 THEN "AM" ELSE "PM">>

\* datetime.datetime.now(pacific_tz): the minutes of the Pacific day
PacificTimes ==
    {[hour |-> h, minute |-> m, time_str |-> strftime(h, m)] :
        h \in 0..23, m \in 0..59}

\* f"EARLY-{uuid.uuid4().hex[:8].upper()}"
DiscountCodes == {"EARLY-1A2B3C4D", "EARLY-9F8E7D6C"}

early_risers_code_msg(discount_code) ==
    Msg("Great news! You qualify for our Early Risers Promotion. Here's your unique 10% discount code: {discount_code}\n\nThis code is valid for your next purchase. Can I help you with anything else?",
        <<discount_code>>)

early_risers_closed_msg(time_str) ==
    Msg("The Early Risers Promotion is only available between 8:00 AM and 10:00 AM Pacific Time. Current time is {time_str}. Please check back during promotion hours. Can I help you with anything else?",
        time_str)

\* handle_early_risers_promotion with the test 8 <= hour <= 10
handle_early_risers_promotion_through_ten(current_time, discount_code) ==
    IF 8 <= current_time.hour /\ current_time.hour <= 10
    THEN early_risers_code_msg(discount_code)
    ELSE early_risers_closed_msg(current_time.time_str)

handle_early_risers_promotion(current_time, discount_code) ==
    IF 8 <= current_time.hour /\ current_time.hour < 10
    THEN early_risers_code_msg(discount_code)
    ELSE early_risers_closed_msg(current_time.time_str)

handle_other_promotion_requests ==
    Msg("I'm sorry, but the promotion or discount you're asking about isn't currently available. Is there something else I can help you with?", <<>>)

----------------------------------------------------------------------------
\* Python helpers

\* dict.get(key): None when the key is absent
Get(d, key) == IF key \in DOMAIN d THEN d[key] ELSE None

\* the empty dict {}
EmptyInfo == [k \in {} |-> None]

\* d[key] = value
Put(d, key, value) ==
    [k \in DOMAIN d \cup {key} |-> IF k = key THEN value ELSE d[k]]

\* an awaited call that raised instead of returning
OracleError == "<exception>"

----------------------------------------------------------------------------
\* Language model: intent classification

ClassifierOutputs ==
    {"order_status", "product_recommendations", "promotions", "other_discounts",
     "none", " Promotions\n", "refund", OracleError}

\* str.strip().lower() on the outputs above
strip_lower(text) ==
    IF text = " Promotions\n" THEN "promotions"
    ELSE IF text = " Yes\n" THEN "yes"
    ELSE text

valid_intents ==
    {"order_status", "product_recommendations", "promotions", "other_discounts", "none"}

\* _detect_intent_llm without its try / except
_detect_intent_llm_unguarded(output_text) ==
    IF output_text = OracleError
    THEN OracleError
    ELSE LET intent == strip_lower(output_text)
         IN  IF intent \notin valid_intents THEN "none" ELSE intent

\* _detect_intent_llm without the test of lines 116-117
_detect_intent_llm_unvalidated(output_text) ==
    IF output_text = OracleError
    THEN "none"
    ELSE strip_lower(output_text)

_detect_intent_llm(output_text) ==
    IF output_text = OracleError
    THEN "none"
    ELSE LET intent == strip_lower(output_text)
         IN  IF intent \notin valid_intents THEN "none" ELSE intent

\* intent_mapping.get(intent_result, Intent.NONE)
intent_mapping(intent_result) ==
    CASE intent_result = "order_status" -> ORDER_STATUS
      [] intent_result = "product_recommendations" -> PRODUCT_RECOMMENDATIONS
      [] intent_result = "promotions" -> PROMOTIONS
      [] OTHER -> NONE

----------------------------------------------------------------------------
\* Language model: order slot extraction

ExtractorOutputs ==
    {[raised |-> FALSE, order_number |-> a, email |-> b] :
        a \in {None, ""} \cup OrderNumbers, b \in {None} \cup Emails}
    \cup {[raised |-> TRUE, order_number |-> None, email |-> None]}

_extract_order_details_with_llm(parsed) ==
    IF parsed.raised
    THEN [order_number |-> None, email |-> None]
    ELSE [order_number |-> parsed.order_number, email |-> parsed.email]

\* update_collected_info without the tests of lines 105 and 107
update_collected_info_overwrites(info, order_details) ==
    Put(Put(info, "order_number", order_details.order_number),
        "email", order_details.email)

\* "Update collected info with any new information found"
update_collected_info(info, order_details) ==
    LET with_number ==
            IF Truthy(order_details.order_number)
            THEN Put(info, "order_number", order_details.order_number)
            ELSE info
    IN  IF Truthy(order_details.email)
        THEN Put(with_number, "email", order_details.email)
        ELSE with_number

----------------------------------------------------------------------------
\* Order service

Order(order_number, email, status, tracking_number) ==
    [OrderNumber |-> order_number, CustomerName |-> "John Doe", Email |-> email,
     ProductsOrdered |-> <<"SOBP001", "SOWB004">>, Status |-> status,
     TrackingNumber |-> tracking_number]

\* what GET /orders/ answers for a query: a transport or HTTP error, no
\* order, or the matching order
SearchOutcomes(order_number, email) ==
    {[raised |-> TRUE, orders |-> <<>>],
     [raised |-> FALSE, orders |-> <<>>],
     [raised |-> FALSE, orders |-> <<Order(order_number, email, "delivered", "TRK123456789")>>],
     [raised |-> FALSE, orders |-> <<Order(order_number, email, "in-transit", None)>>]}

\* how search_orders ended
search_result(found) ==
    IF found.raised THEN "error"
    ELSE IF Len(found.orders) = 0 THEN "empty" ELSE "found"

\* the ValueError of get_order_details and the errors of search_orders
\* both leave get_order_details as an exception
get_order_details(found) ==
    IF found.raised \/ Len(found.orders) = 0
    THEN [raised |-> TRUE, order |-> None]
    ELSE [raised |-> FALSE, order |-> found.orders[1]]

upper(status) ==
    CASE status = "delivered" -> "DELIVERED"
      [] status = "in-transit" -> "IN-TRANSIT"

format_order_info(order) ==
    <<order.OrderNumber, order.CustomerName, order.Email, upper(order.Status)>>
    \o order.ProductsOrdered
    \o (IF Truthy(order.TrackingNumber)
        THEN <<order.TrackingNumber, order.TrackingNumber>>
        ELSE <<"No tracking number available">>)

order_status_to_readable(status) ==
    CASE status = "delivered" -> "The order has been delivered"
      [] status = "in-transit" -> "The order is on its way"
      [] status = "fulfilled" -> "The order has been processed and is ready for shipping"
      [] status = "error" -> "There was an issue with the order"
      [] OTHER -> status

----------------------------------------------------------------------------
\* Product service

Catalog == <<"SOBP001", "SOWB004">>

\* what GET /products leads to in get_all_products
CatalogOutcomes == {"products", "no products", "http error", "unexpected format"}

\* get_all_products without the check of the structure of the answer
get_all_products_unchecked(outcome) ==
    IF outcome = "products" THEN Catalog
    ELSE IF outcome = "unexpected format" THEN <<"detail">>
    ELSE <<>>

get_all_products(outcome) ==
    IF outcome = "products" THEN Catalog ELSE <<>>

----------------------------------------------------------------------------
\* Language model: product question check and answer generation

CheckerOutputs == {"yes", " Yes\n", "no", "maybe", OracleError}

\* _check_for_product_question answering False when the call raised
_check_for_product_question_fail_closed(output_text) ==
    IF output_text = OracleError THEN FALSE ELSE strip_lower(output_text) = "yes"

_check_for_product_question(output_text) ==
    IF output_text = OracleError THEN TRUE ELSE strip_lower(output_text) = "yes"

product_answer ==
    "The Backcountry Blaze Backpack (SOBP001) is in stock. Can I help with anything else?"

GeneratorOutputs == {"", "  ", "ok", product_answer, OracleError}

\* str.strip() on the outputs above
strip(text) == IF text = "  " THEN "" ELSE text

\* len() of the stripped outputs above
len(text) ==
    CASE text = "" -> 0
      [] text = "ok" -> 2
      [] text = product_answer -> 84
      [] text = generation_error_text -> 129

\* _generate_product_matching_response without its try/except (lines 189-192)
_generate_product_matching_response_unguarded(output_text) ==
    IF output_text = OracleError
    THEN OracleError
    ELSE LET result == strip(output_text)
         IN  IF len(result) <= 2 THEN "" ELSE result

\* _generate_product_matching_response giving its apology for an empty answer
_generate_product_matching_response_empty_as_error(output_text) ==
    IF output_text = OracleError
    THEN generation_error_text
    ELSE LET result == strip(output_text)
         IN  IF len(result) <= 2 THEN generation_error_text ELSE result

_generate_product_matching_response(output_text) ==
    IF output_text = OracleError
    THEN generation_error_text
    ELSE LET result == strip(output_text)
         IN  IF len(result) <= 2 THEN "" ELSE result

----------------------------------------------------------------------------
\* State

Ev(op, val) == [op |-> op, val |-> val]

NoLocals == [order_number |-> None, email |-> None, product_data |-> <<>>]

\* before the first call of process_message
NoTurn == [state |-> WELCOME, intent |-> NONE, info |-> EmptyInfo,
           user_message |-> "", response |-> None, history_length |-> 0]

\* a frame: the position, the local variables and the record of one task
Frame(task, at) ==
    [task |-> task, pc |-> at, locals |-> NoLocals, response |-> None,
     turn_start |-> NoTurn, events |-> <<>>]

\* main.chat_loop is the only task of its event loop
NoTask == Frame("none", "finished")

Init ==
    /\ conversation_history = <<>>
    /\ state = WELCOME
    /\ current_intent = NONE
    /\ collected_info = EmptyInfo
    /\ pc = "idle"
    /\ locals = NoLocals
    /\ response = None
    /\ turns = 0
    /\ turn_start = NoTurn
    /\ events = <<>>
    /\ other = NoTask

\* _send_response assigning a new list instead of appending
_send_response_new_history(text, next_state, log) ==
    /\ conversation_history' = <<[role |-> "assistant", content |-> text]>>
    /\ state' = next_state
    /\ response' = text
    /\ pc' = "idle"
    /\ locals' = NoLocals
    /\ events' = log \o <<Ev("append", "assistant"), Ev("set_state", next_state)>>

\* _send_response returning the text without recording it
_send_response_without_append(text, next_state, log) ==
    /\ conversation_history' = conversation_history
    /\ state' = next_state
    /\ response' = text
    /\ pc' = "idle"
    /\ locals' = NoLocals
    /\ events' = Append(log, Ev("set_state", next_state))

\* _send_response without its assignment of the phase
_send_response_keeps_state(text, next_state, log) ==
    /\ conversation_history' =
           Append(conversation_history, [role |-> "assistant", content |-> text])
    /\ state' = state
    /\ response' = text
    /\ pc' = "idle"
    /\ locals' = NoLocals
    /\ events' = log \o <<Ev("append", "assistant")>>

\* AgentUtilsMixin._send_response, as the last statement of a turn
\* (every caller returns its result): log is what the turn did so far
_send_response(text, next_state, log) ==
    /\ conversation_history' =
           Append(conversation_history, [role |-> "assistant", content |-> text])
    /\ state' = next_state
    /\ response' = text
    /\ pc' = "idle"
    /\ locals' = NoLocals
    /\ events' = log \o <<Ev("append", "assistant"), Ev("set_state", next_state)>>

\* the turn suspends at the external call `call`
Await(call, log) ==
    /\ pc' = call
    /\ events' = log
    /\ UNCHANGED <<conversation_history, response>>

\* an exception leaves the handler and process_message: no statement after
\* the call that raised runs, and the caller of process_message gets it
Raise(log) ==
    /\ pc' = "raised"
    /\ events' = Append(log, Ev("raise", ""))
    /\ UNCHANGED <<conversation_history, state, current_intent, collected_info,
                   locals, response>>

\* the record of an oracle call: that the model raised or what it
\* answered, then what the helper made of it
Oracle(call, output_text, result) ==
    <<(IF output_text = OracleError
       THEN Ev("oracle_error", call)
       ELSE Ev("output", output_text)),
      Ev(call, result)>>

----------------------------------------------------------------------------
\* SierraAgent.process_message, up to its first awaited call

\* process_welcome without its return: the first call goes on to classify
process_welcome_no_return ==
    /\ state' = INTENT_DETECTION
    /\ pc' = "_handle_intent_detection"
    /\ events' = <<Ev("set_state", INTENT_DETECTION)>>
    /\ UNCHANGED <<conversation_history, response, locals>>

\* lines 48-50: the first call of a session
process_welcome ==
    _send_response(welcome_msg, INTENT_DETECTION, <<Ev("set_state", INTENT_DETECTION)>>)

\* process_turn without lines 53-54: the utterance is not recorded
process_turn_drops_user_message(user_message) ==
    /\ events' = <<>>
    /\ UNCHANGED <<conversation_history, state, locals>>
    /\ IF state = INTENT_DETECTION
       THEN pc' = "_handle_intent_detection" /\ UNCHANGED response
       ELSE IF state = INFO_GATHERING
       THEN pc' = "_handle_info_gathering" /\ UNCHANGED response
       ELSE pc' = "idle" /\ response' = process_message_fallback

\* lines 52-63: every later call
process_turn(user_message) ==
    /\ conversation_history' =
           IF user_message # ""
           THEN Append(conversation_history,
                       [role |-> "user", content |-> Msg(user_message, <<>>)])
           ELSE conversation_history
    /\ events' = IF user_message # "" THEN <<Ev("append", "user")>> ELSE <<>>
    /\ UNCHANGED <<state, locals>>
    /\ IF state = INTENT_DETECTION
       THEN pc' = "_handle_intent_detection" /\ UNCHANGED response
       ELSE IF state = INFO_GATHERING
       THEN pc' = "_handle_info_gathering" /\ UNCHANGED response
       ELSE pc' = "idle" /\ response' = process_message_fallback

process_message(user_message) ==
    /\ pc = "idle"
    /\ turns < MaxTurns
    /\ turns' = turns + 1
    /\ turn_start' = [state |-> state, intent |-> current_intent, info |-> collected_info,
                      user_message |-> user_message, response |-> response,
                      history_length |-> Len(conversation_history)]
    /\ UNCHANGED <<current_intent, collected_info, other>>
    /\ IF state = WELCOME
       THEN process_welcome
       ELSE process_turn(user_message)

\* _handle_intent_detection with the reset of lines 82-85 made before the
\* test of line 71
_handle_intent_detection_resets_first(output_text) ==
    /\ pc = "_handle_intent_detection"
    /\ UNCHANGED <<other, turns, turn_start>>
    /\ LET intent_result == _detect_intent_llm(output_text)
           new_intent == intent_mapping(intent_result)
           log == events \o Oracle("classify", output_text, intent_result)
                  \o <<Ev("set_intent", new_intent), Ev("clear_info", "")>>
       IN  /\ current_intent' = new_intent
           /\ collected_info' = EmptyInfo
           /\ IF intent_result = "none"
              THEN _send_response(clarification_msg, INTENT_DETECTION, log)
              ELSE IF new_intent = ORDER_STATUS
              THEN Await("_extract_order_details_with_llm", log)
                   /\ UNCHANGED <<state, locals>>
              ELSE IF new_intent = PRODUCT_RECOMMENDATIONS
              THEN Await("get_all_products", log)
                   /\ UNCHANGED <<state, locals>>
              ELSE IF new_intent = PROMOTIONS
              THEN _send_response(promotions_msg, INTENT_DETECTION, log)
              ELSE _send_response(intent_fallback_msg, INTENT_DETECTION,
                                  Append(log, Ev("set_state", INTENT_DETECTION)))

\* _handle_intent_detection waiting in INFO_GATHERING for the answer to the
\* question of promotions_msg
_handle_intent_detection_promotions_gathering(output_text) ==
    /\ pc = "_handle_intent_detection"
    /\ UNCHANGED <<other, turns, turn_start>>
    /\ LET intent_result == _detect_intent_llm(output_text)
           log == events \o Oracle("classify", output_text, intent_result)
       IN  IF intent_result = OracleError
           THEN Raise(events)
           ELSE IF intent_result = "none"
           THEN /\ _send_response(clarification_msg, INTENT_DETECTION, log)
                /\ UNCHANGED <<current_intent, collected_info>>
           ELSE LET new_intent == intent_mapping(intent_result)
                    log2 == log \o <<Ev("set_intent", new_intent), Ev("clear_info", "")>>
                IN  /\ current_intent' = new_intent
                    /\ collected_info' = EmptyInfo
                    /\ IF new_intent = ORDER_STATUS
                       THEN Await("_extract_order_details_with_llm", log2)
                            /\ UNCHANGED <<state, locals>>
                       ELSE IF new_intent = PRODUCT_RECOMMENDATIONS
                       THEN Await("get_all_products", log2)
                            /\ UNCHANGED <<state, locals>>
                       ELSE IF new_intent = PROMOTIONS
                       THEN _send_response(promotions_msg, INFO_GATHERING, log2)
                       ELSE _send_response(intent_fallback_msg, INTENT_DETECTION,
                                Append(log2, Ev("set_state", INTENT_DETECTION)))

\* SierraAgent._handle_intent_detection, from the answer of the classifier
_handle_intent_detection(output_text) ==
    /\ pc = "_handle_intent_detection"
    /\ UNCHANGED <<other, turns, turn_start>>
    /\ LET intent_result == _detect_intent_llm(output_text)
           log == events \o Oracle("classify", output_text, intent_result)
       IN  IF intent_result = OracleError
           THEN Raise(events)
           ELSE IF intent_result = "none"
           THEN /\ _send_response(clarification_msg, INTENT_DETECTION, log)
                /\ UNCHANGED <<current_intent, collected_info>>
           ELSE LET new_intent == intent_mapping(intent_result)
                    log2 == log \o <<Ev("set_intent", new_intent), Ev("clear_info", "")>>
                IN  /\ current_intent' = new_intent
                    /\ collected_info' = EmptyInfo
                    /\ IF new_intent = ORDER_STATUS
                       THEN Await("_extract_order_details_with_llm", log2)
                            /\ UNCHANGED <<state, locals>>
                       ELSE IF new_intent = PRODUCT_RECOMMENDATIONS
                       THEN Await("get_all_products", log2)
                            /\ UNCHANGED <<state, locals>>
                       ELSE IF new_intent = PROMOTIONS
                       THEN _send_response(promotions_msg, INTENT_DETECTION, log2)
                       ELSE _send_response(intent_fallback_msg, INTENT_DETECTION,
                                Append(log2, Ev("set_state", INTENT_DETECTION)))

\* intent_changed without line 119: the slots of the old intent are kept
intent_changed_keeps_info(detected_intent, log) ==
    /\ current_intent' = detected_intent
    /\ state' = INTENT_DETECTION
    /\ Await("_handle_intent_detection",
             log \o <<Ev("set_intent", detected_intent),
                      Ev("set_state", INTENT_DETECTION)>>)
    /\ UNCHANGED <<locals, collected_info>>

\* intent_changed returning self._handle_info_gathering() instead
intent_changed_calls_itself(detected_intent, log) ==
    /\ current_intent' = detected_intent
    /\ collected_info' = EmptyInfo
    /\ state' = INTENT_DETECTION
    /\ Await("_handle_info_gathering",
             log \o <<Ev("set_intent", detected_intent), Ev("clear_info", ""),
                      Ev("set_state", INTENT_DETECTION)>>)
    /\ UNCHANGED locals

\* intent_changed dispatching on the detected intent, without asking again
intent_changed_without_reclassification(detected_intent, log) ==
    /\ current_intent' = detected_intent
    /\ collected_info' = EmptyInfo
    /\ LET log2 == log \o <<Ev("set_intent", detected_intent), Ev("clear_info", ""),
                             Ev("set_state", INTENT_DETECTION)>>
       IN  IF detected_intent = ORDER_STATUS
           THEN /\ Await("_extract_order_details_with_llm", log2)
                /\ state' = INTENT_DETECTION
                /\ UNCHANGED locals
           ELSE IF detected_intent = PRODUCT_RECOMMENDATIONS
           THEN /\ Await("get_all_products", log2)
                /\ state' = INTENT_DETECTION
                /\ UNCHANGED locals
           ELSE _send_response(promotions_msg, INTENT_DETECTION, log2)

\* lines 117-121 of _handle_info_gathering: "If intent changed, reset and go
\* back to intent detection", which asks the classifier again
intent_changed(detected_intent, log) ==
    /\ current_intent' = detected_intent
    /\ collected_info' = EmptyInfo
    /\ state' = INTENT_DETECTION
    /\ Await("_handle_intent_detection",
             log \o <<Ev("set_intent", detected_intent), Ev("clear_info", ""),
                      Ev("set_state", INTENT_DETECTION)>>)
    /\ UNCHANGED locals

\* SierraAgent._handle_info_gathering, from the answer of the classifier
_handle_info_gathering(output_text) ==
    /\ pc = "_handle_info_gathering"
    /\ UNCHANGED <<other, turns, turn_start>>
    /\ LET intent_result == _detect_intent_llm(output_text)
           detected_intent == intent_mapping(intent_result)
           log == events \o Oracle("classify", output_text, intent_result)
       IN  IF intent_result = OracleError
           THEN Raise(events)
           ELSE IF detected_intent # NONE /\ detected_intent # current_intent
           THEN intent_changed(detected_intent, log)
           ELSE /\ UNCHANGED <<current_intent, collected_info>>
                /\ IF current_intent = ORDER_STATUS
                   THEN Await("_extract_order_details_with_llm", log)
                        /\ UNCHANGED <<state, locals>>
                   ELSE IF current_intent = PRODUCT_RECOMMENDATIONS
                   THEN Await("get_all_products", log)
                        /\ UNCHANGED <<state, locals>>
                   ELSE /\ conversation_history' =
                              Append(conversation_history,
                                     [role |-> "assistant", content |-> info_fallback_msg])
                        /\ state' = INTENT_DETECTION
                        /\ response' = info_fallback_msg
                        /\ pc' = "idle"
                        /\ events' = log \o <<Ev("append", "assistant"),
                                               Ev("set_state", INTENT_DETECTION)>>
                        /\ UNCHANGED locals

----------------------------------------------------------------------------
\* Order sub-flow

\* _handle_order_info_gathering with `order_number or email` on line 115
_handle_order_info_gathering_either_slot(parsed) ==
    /\ pc = "_extract_order_details_with_llm"
    /\ UNCHANGED <<other, turns, turn_start, current_intent>>
    /\ LET order_details == _extract_order_details_with_llm(parsed)
           info == update_collected_info(collected_info, order_details)
           order_number == Get(info, "order_number")
           email == Get(info, "email")
           log == events
                  \o (IF parsed.raised THEN <<Ev("oracle_error", "extract")>> ELSE <<>>)
                  \o <<Ev("extract", ""),
                        Ev("extracted_order_number", order_details.order_number),
                        Ev("extracted_email", order_details.email)>>
                  \o (IF Truthy(order_details.order_number)
                      THEN <<Ev("write_info", "order_number")>> ELSE <<>>)
                  \o (IF Truthy(order_details.email)
                      THEN <<Ev("write_info", "email")>> ELSE <<>>)
       IN  /\ collected_info' = info
           /\ IF Truthy(order_number) \/ Truthy(email)
              THEN /\ state' = DATA_RETRIEVAL
                   /\ Await("_handle_data_retrieval",
                            Append(log, Ev("set_state", DATA_RETRIEVAL)))
                   /\ UNCHANGED locals
              ELSE _send_response(info_request_both_msg, INFO_GATHERING, log)

\* _handle_order_info_gathering with the prompts of lines 123-128 exchanged
_handle_order_info_gathering_swapped_prompts(parsed) ==
    /\ pc = "_extract_order_details_with_llm"
    /\ UNCHANGED <<other, turns, turn_start, current_intent>>
    /\ LET order_details == _extract_order_details_with_llm(parsed)
           info == update_collected_info(collected_info, order_details)
           order_number == Get(info, "order_number")
           email == Get(info, "email")
           log == events
                  \o (IF parsed.raised THEN <<Ev("oracle_error", "extract")>> ELSE <<>>)
                  \o <<Ev("extract", ""),
                        Ev("extracted_order_number", order_details.order_number),
                        Ev("extracted_email", order_details.email)>>
                  \o (IF Truthy(order_details.order_number)
                      THEN <<Ev("write_info", "order_number")>> ELSE <<>>)
                  \o (IF Truthy(order_details.email)
                      THEN <<Ev("write_info", "email")>> ELSE <<>>)
       IN  /\ collected_info' = info
           /\ IF Truthy(order_number) /\ Truthy(email)
              THEN /\ state' = DATA_RETRIEVAL
                   /\ Await("_handle_data_retrieval",
                            Append(log, Ev("set_state", DATA_RETRIEVAL)))
                   /\ UNCHANGED locals
              ELSE IF ~Truthy(order_number) /\ ~Truthy(email)
              THEN _send_response(info_request_both_msg, INFO_GATHERING, log)
              ELSE IF ~Truthy(order_number)
              THEN _send_response(info_request_email_msg(email), INFO_GATHERING, log)
              ELSE _send_response(info_request_order_number_msg(order_number),
                                  INFO_GATHERING, log)

\* OrderUtilsMixin._handle_order_info_gathering, from the answer of the extractor
_handle_order_info_gathering(parsed) ==
    /\ pc = "_extract_order_details_with_llm"
    /\ UNCHANGED <<other, turns, turn_start, current_intent>>
    /\ LET order_details == _extract_order_details_with_llm(parsed)
           info == update_collected_info(collected_info, order_details)
           order_number == Get(info, "order_number")
           email == Get(info, "email")
           log == events
                  \o (IF parsed.raised THEN <<Ev("oracle_error", "extract")>> ELSE <<>>)
                  \o <<Ev("extract", ""),
                        Ev("extracted_order_number", order_details.order_number),
                        Ev("extracted_email", order_details.email)>>
                  \o (IF Truthy(order_details.order_number)
                      THEN <<Ev("write_info", "order_number")>> ELSE <<>>)
                  \o (IF Truthy(order_details.email)
                      THEN <<Ev("write_info", "email")>> ELSE <<>>)
       IN  /\ collected_info' = info
           /\ IF Truthy(order_number) /\ Truthy(email)
              THEN /\ state' = DATA_RETRIEVAL
                   /\ Await("_handle_data_retrieval",
                            Append(log, Ev("set_state", DATA_RETRIEVAL)))
                   /\ UNCHANGED locals
              ELSE IF ~Truthy(order_number) /\ ~Truthy(email)
              THEN _send_response(info_request_both_msg, INFO_GATHERING, log)
              ELSE IF ~Truthy(order_number)
              THEN _send_response(info_request_order_number_msg(email), INFO_GATHERING, log)
              ELSE _send_response(info_request_email_msg(order_number), INFO_GATHERING, log)

\* SierraAgent._handle_data_retrieval, up to its awaited call
_handle_data_retrieval ==
    /\ pc = "_handle_data_retrieval"
    /\ UNCHANGED <<other, turns, turn_start, current_intent, collected_info>>
    /\ LET order_number == Get(collected_info, "order_number")
           email == Get(collected_info, "email")
       IN  IF current_intent = ORDER_STATUS
           THEN IF Truthy(order_number) /\ Truthy(email)
                THEN /\ Await("get_order_details",
                              events \o <<Ev("lookup_order_number", order_number),
                                          Ev("lookup_email", email)>>)
                     /\ locals' = [locals EXCEPT !.order_number = order_number,
                                                 !.email = email]
                     /\ UNCHANGED state
                ELSE _send_response(missing_info_msg, INFO_GATHERING, events)
           ELSE IF current_intent = PRODUCT_RECOMMENDATIONS
           THEN Await("get_all_products", events) /\ UNCHANGED <<state, locals>>
           ELSE IF current_intent = PROMOTIONS
           THEN _send_response(promo_msg, INTENT_DETECTION, events)
           ELSE _send_response(retrieval_fallback_msg, INTENT_DETECTION, events)

\* order_found without lines 151-153: the tracking number is not mentioned
order_found_without_tracking(order, log) ==
    /\ _send_response(
           order_found_msg(locals.order_number, "",
                           order_status_to_readable(order.Status),
                           format_order_info(order)),
           INTENT_DETECTION, log)
    /\ UNCHANGED collected_info

\* the order was found: lines 149-156 of _handle_data_retrieval
order_found(order, log) ==
    /\ _send_response(
           order_found_msg(locals.order_number,
                           IF Truthy(order.TrackingNumber) THEN order.TrackingNumber ELSE "",
                           order_status_to_readable(order.Status),
                           format_order_info(order)),
           INTENT_DETECTION, log)
    /\ UNCHANGED collected_info

\* order_not_found without line 160: the slots are kept
order_not_found_keeps_info(order_number, email, log) ==
    /\ UNCHANGED collected_info
    /\ _send_response(order_error_msg(order_number, email), INFO_GATHERING, log)

\* order_not_found sending the user back to the welcome phase
order_not_found_to_welcome(order_number, email, log) ==
    /\ collected_info' = EmptyInfo
    /\ _send_response(order_error_msg(order_number, email), WELCOME,
                      Append(log, Ev("clear_info", "")))

\* the lookup raised: lines 157-161 of _handle_data_retrieval
order_not_found(order_number, email, log) ==
    /\ collected_info' = EmptyInfo
    /\ _send_response(order_error_msg(order_number, email), INFO_GATHERING,
                      Append(log, Ev("clear_info", "")))

\* SierraAgent._handle_data_retrieval, from the answer of the order service
order_lookup_returned(found) ==
    /\ pc = "get_order_details"
    /\ UNCHANGED <<other, turns, turn_start, current_intent>>
    /\ LET result == get_order_details(found)
           log == Append(events, Ev("lookup", search_result(found)))
       IN  IF ~result.raised
           THEN order_found(result.order,
                            log \o <<Ev("order_status", result.order.Status),
                                     Ev("order_tracking", result.order.TrackingNumber)>>)
           ELSE order_not_found(locals.order_number, locals.email, log)

----------------------------------------------------------------------------
\* Product sub-flow: ProductUtilsMixin._handle_product_info_gathering

\* products_returned starting the generation without waiting for the check
products_returned_generates_at_once(outcome) ==
    /\ pc = "get_all_products"
    /\ UNCHANGED <<other, turns, turn_start, current_intent, collected_info>>
    /\ LET product_data == get_all_products(outcome)
           log == Append(events, Ev("get_all_products", outcome))
       IN  IF Len(product_data) = 0
           THEN _send_response(product_error_msg, INTENT_DETECTION, log)
           ELSE /\ Await("_generate_product_matching_response", log)
                /\ locals' = [locals EXCEPT !.product_data = product_data]
                /\ UNCHANGED state

\* from the answer of the product service
products_returned(outcome) ==
    /\ pc = "get_all_products"
    /\ UNCHANGED <<other, turns, turn_start, current_intent, collected_info>>
    /\ LET product_data == get_all_products(outcome)
           log == Append(events, Ev("get_all_products", outcome))
       IN  IF Len(product_data) = 0
           THEN _send_response(product_error_msg, INTENT_DETECTION, log)
           ELSE /\ Await("_check_for_product_question", log)
                /\ locals' = [locals EXCEPT !.product_data = product_data]
                /\ UNCHANGED state

\* from the answer of the product question check
product_question_checked(output_text) ==
    /\ pc = "_check_for_product_question"
    /\ UNCHANGED <<other, turns, turn_start, current_intent, collected_info>>
    /\ LET has_clear_question == _check_for_product_question(output_text)
           log == events \o Oracle("check_question", output_text,
                                    IF has_clear_question THEN "yes" ELSE "no")
       IN  IF ~has_clear_question
           THEN _send_response(prompt_msg, INFO_GATHERING, log)
           ELSE Await("_generate_product_matching_response", log)
                /\ UNCHANGED <<state, locals>>

\* from the answer of the generation
product_response_generated(output_text) ==
    /\ pc = "_generate_product_matching_response"
    /\ UNCHANGED <<other, turns, turn_start, current_intent, collected_info>>
    /\ LET generated == _generate_product_matching_response(output_text)
           log == events \o Oracle("generate", output_text, output_text)
       IN  IF generated = OracleError
           THEN Raise(Append(events, Ev("oracle_error", "generate")))
           ELSE IF len(generated) = 0
           THEN _send_response(no_match_msg, INFO_GATHERING, log)
           ELSE _send_response(Msg(generated, <<>>), INTENT_DETECTION, log)

----------------------------------------------------------------------------
Next ==
    \/ \E user_message \in UserMessages : process_message(user_message)
    \/ \E output_text \in ClassifierOutputs : _handle_intent_detection(output_text)
    \/ \E output_text \in ClassifierOutputs : _handle_info_gathering(output_text)
    \/ \E parsed \in ExtractorOutputs : _handle_order_info_gathering(parsed)
    \/ _handle_data_retrieval
    \/ \E found \in SearchOutcomes(locals.order_number, locals.email) :
           order_lookup_returned(found)
    \/ \E outcome \in CatalogOutcomes : products_returned(outcome)
    \/ \E output_text \in CheckerOutputs : product_question_checked(output_text)
    \/ \E output_text \in GeneratorOutputs : product_response_generated(output_text)

Spec == Init /\ [][Next]_vars

----------------------------------------------------------------------------
\* The evaluation harness (evals/metrics.py): run_evaluation builds an
\* AgentEvaluator, whose constructor schedules _initialize_agent as a task,
\* and runs a test case on a fresh agent.  The session is the agent of the
\* test case (self.agent from line 27 or 67 on; the agent of line 10 is
\* replaced before the scheduled task runs and never gets a call).  Tasks
\* of one event loop take turns at awaited external calls only.

\* the queries of evals/test_cases.py are not empty
Queries == UserMessages \ {""}

\* the calls a task can be suspended at
AwaitPoints ==
    {"_handle_intent_detection", "_handle_info_gathering",
     "_extract_order_details_with_llm", "get_order_details", "get_all_products",
     "_check_for_product_question", "_generate_product_matching_response"}

\* the task whose frame is in pc, locals, response, turn_start and events
Running == IF other.task = "main" THEN "background" ELSE "main"

InitEval ==
    /\ conversation_history = <<>>
    /\ state = WELCOME
    /\ current_intent = NONE
    /\ collected_info = EmptyInfo
    /\ pc = "idle"
    /\ locals = NoLocals
    /\ response = None
    /\ turns = 0
    /\ turn_start = NoTurn
    /\ events = <<>>
    /\ other = Frame("background", "scheduled")

\* evaluate_single_turn / evaluate_multi_turn, lines 28 and 68: the welcome
\* call (line 20 then assigns the phase the welcome call left)
evaluate_initialize ==
    /\ Running = "main"
    /\ turns = 0
    /\ process_message("")

\* evaluate_single_turn / evaluate_multi_turn, lines 34 and 74
evaluate_query(query) ==
    /\ Running = "main"
    /\ turns > 0
    /\ process_message(query)

\* the event loop gives the turn to the other task: the running one is
\* suspended at an external call or is over
task_switch ==
    /\ pc \in AwaitPoints \cup {"finished"}
    /\ other.pc \in AwaitPoints \cup {"scheduled"}
    /\ pc' = other.pc
    /\ locals' = other.locals
    /\ response' = other.response
    /\ turn_start' = other.turn_start
    /\ events' = other.events
    /\ other' = [task |-> Running, pc |-> pc, locals |-> locals, response |-> response,
                 turn_start |-> turn_start, events |-> events]
    /\ UNCHANGED <<conversation_history, state, current_intent, collected_info, turns>>

\* the task of line 13 starts: _initialize_agent, line 18, on self.agent
initialize_agent ==
    /\ pc = "scheduled"
    /\ turn_start' = [state |-> state, intent |-> current_intent, info |-> collected_info,
                      user_message |-> "", response |-> response,
                      history_length |-> Len(conversation_history)]
    /\ UNCHANGED <<current_intent, collected_info, turns, other>>
    /\ IF state = WELCOME
       THEN process_welcome
       ELSE process_turn("")

\* _initialize_agent, line 20, after its call of process_message returned
initialize_agent_done ==
    /\ Running = "background"
    /\ pc = "idle"
    /\ state' = INTENT_DETECTION
    /\ pc' = "finished"
    /\ UNCHANGED <<conversation_history, current_intent, collected_info, locals,
                   response, turns, turn_start, events, other>>

\* a task created earlier runs before a suspended task is resumed
Resumable == other.pc # "scheduled"

NextEval ==
    \/ evaluate_initialize
    \/ \E query \in Queries : evaluate_query(query)
    \/ task_switch
    \/ initialize_agent
    \/ initialize_agent_done
    \/ Resumable /\ \E output_text \in ClassifierOutputs : _handle_intent_detection(output_text)
    \/ Resumable /\ \E output_text \in ClassifierOutputs : _handle_info_gathering(output_text)
    \/ Resumable /\ \E parsed \in ExtractorOutputs : _handle_order_info_gathering(parsed)
    \/ _handle_data_retrieval
    \/ Resumable /\ \E found \in SearchOutcomes(locals.order_number, locals.email) :
                        order_lookup_returned(found)
    \/ Resumable /\ \E outcome \in CatalogOutcomes : products_returned(outcome)
    \/ Resumable /\ \E output_text \in CheckerOutputs : product_question_checked(output_text)
    \/ Resumable /\ \E output_text \in GeneratorOutputs : product_response_generated(output_text)

SpecEval == InitEval /\ [][NextEval]_vars

----------------------------------------------------------------------------
\* handle_early_risers_promotion on its own: one call, at any minute of the
\* Pacific day, with any code uuid4 may give

InitPromo ==
    /\ conversation_history = <<>>
    /\ state = WELCOME
    /\ current_intent = NONE
    /\ collected_info = EmptyInfo
    /\ pc = "handle_early_risers_promotion"
    /\ locals \in [current_time : PacificTimes, discount_code : DiscountCodes]
    /\ response = None
    /\ turns = 0
    /\ turn_start = NoTurn
    /\ events = <<>>
    /\ other = NoTask

promotion_returned ==
    /\ pc = "handle_early_risers_promotion"
    /\ response' = handle_early_risers_promotion(locals.current_time, locals.discount_code)
    /\ pc' = "returned"
    /\ UNCHANGED <<conversation_history, state, current_intent, collected_info,
                   locals, turns, turn_start, events, other>>

NextPromo == promotion_returned

SpecPromo == InitPromo /\ [][NextPromo]_vars

-----------------------------------------------------------------------------
\* _get_recent_conversation on its own: the classifier's context for
\* histories of every length up to MaxHistory

MaxHistory == 27

num_messages == 25

\* histories a session can have when the classifier is called: the welcome,
\* then utterances and replies in turn; an even length ends with the
\* utterance of the turn, an odd length is a turn with an empty utterance
Histories ==
    { [i \in 1..n |->
          IF i = 1 THEN [role |-> "assistant", content |-> welcome_msg]
          ELSE IF i % 2 = 0
          THEN [role |-> "user", content |-> Msg("hello", <<>>)]
          ELSE [role |-> "assistant", content |-> reply]] :
      n \in 1..MaxHistory, reply \in {clarification_msg, promotions_msg, prompt_msg} }

\* the slice of AgentUtilsMixin._get_recent_conversation
_get_recent_conversation(history) ==
    IF Len(history) >= num_messages
    THEN SubSeq(history, Len(history) - num_messages + 1, Len(history))
    ELSE history

\* one line "User: ..." or "Assistant: ..." per message, in order
_format_conversation_text(messages) ==
    [i \in DOMAIN messages |->
        [speaker |-> IF messages[i].role = "user" THEN "User" ELSE "Assistant",
         content |-> messages[i].content]]

InitContext ==
    /\ conversation_history \in Histories
    /\ state = INTENT_DETECTION
    /\ current_intent = NONE
    /\ collected_info = EmptyInfo
    /\ pc = "_get_recent_conversation"
    /\ locals = NoLocals
    /\ response = None
    /\ turns = 0
    /\ turn_start = NoTurn
    /\ events = <<>>
    /\ other = NoTask

\* recent_conversation = self._get_recent_conversation() of _detect_intent_llm
recent_conversation_returned ==
    /\ pc = "_get_recent_conversation"
    /\ response' = _format_conversation_text(_get_recent_conversation(conversation_history))
    /\ pc' = "recent_conversation"
    /\ UNCHANGED <<conversation_history, state, current_intent, collected_info,
                   locals, turns, turn_start, events, other>>

NextContext == recent_conversation_returned

SpecContext == InitContext /\ [][NextContext]_vars

----------------------------------------------------------------------------
\* Vocabulary of the properties

\* a turn has been processed to its end
TurnDone == pc = "idle" /\ turns > 0

\* the answers the classifier gave in the turn, in order
Classified == SelectSeq(events, LAMBDA e : e.op = "classify")

Did(op) == \E i \in DOMAIN events : events[i].op = op

DidWith(op, val) == \E i \in DOMAIN events : events[i] = Ev(op, val)

ExternalCalls ==
    {"classify", "extract", "lookup", "get_all_products", "check_question", "generate"}

\* the tracked intent before event i of the turn
IntentBefore(i) ==
    LET earlier == {j \in 1..(i - 1) : events[j].op = "set_intent"}
    IN  IF earlier = {} THEN turn_start.intent
        ELSE events[CHOOSE j \in earlier : \A k \in earlier : k <= j].val

\* some assignment of the turn gave the tracked intent another value
IntentChangedInTurn ==
    \E i \in DOMAIN events :
        events[i].op = "set_intent" /\ events[i].val # IntentBefore(i)

Filled(info, key) == Truthy(Get(info, key))

\* replies of the product sub-flow
ProductReplies ==
    {prompt_msg, no_match_msg, product_error_msg}
    \cup {Msg(_generate_product_matching_response(o), <<>>) : o \in GeneratorOutputs}

\* replies of the order sub-flow
OrderReply(text) ==
    text.text \in {info_request_both_msg.text,
                   info_request_order_number_msg("").text,
                   info_request_email_msg("").text,
                   order_error_msg("", "").text,
                   order_found_msg("", "", "", <<>>).text}

\* replies of the Early Risers promotion
EarlyRisersReplies ==
    {handle_early_risers_promotion(t, c) : t \in PacificTimes, c \in DiscountCodes}

\* the value logged with the first event `op` of the turn
EventVal(op) == events[CHOOSE i \in DOMAIN events : events[i].op = op].val

\* the intent a classifier label stands for in the specification
LabelIntent(label) ==
    CASE label = "order_status" -> ORDER_STATUS
      [] label = "product_recommendations" -> PRODUCT_RECOMMENDATIONS
      [] label = "promotions" -> PROMOTIONS
      [] label = "other_discounts" -> "OTHER_DISCOUNTS"
      [] OTHER -> NONE

\* text is a reply of the sub-flow of the intent `label` stands for
SubflowReply(label, text) ==
    CASE label = "order_status" -> OrderReply(text)
      [] label = "product_recommendations" -> text \in ProductReplies
      [] label = "promotions" -> text \in EarlyRisersReplies \cup {promotions_msg}
      [] label = "other_discounts" -> text = handle_other_promotion_requests
      [] OTHER -> FALSE

----------------------------------------------------------------------------
\* Properties

\* a turn that started in INFO_GATHERING for ORDER_STATUS with exactly one
\* slot filled, in which the classifier answered product_recommendations
C1_DriftCase ==
    /\ turn_start.state = INFO_GATHERING
    /\ turn_start.intent = ORDER_STATUS
    /\ Filled(turn_start.info, "order_number") # Filled(turn_start.info, "email")
    /\ Len(Classified) >= 1
    /\ Classified[1].val = "product_recommendations"

\* C1: in INFO_GATHERING for ORDER_STATUS with exactly one slot filled, when
\* the turn's classified intent is PRODUCT_RECOMMENDATIONS the reply of that
\* same turn is a product-flow reply, never a missing-slot or clarification
\* prompt.
C1_IntentDriftImmediacy ==
    (TurnDone /\ C1_DriftCase) => response \in ProductReplies

\* a turn that started in INFO_GATHERING in which the classifier answered
\* one of the four intent labels, other than the tracked intent
C2_ChangeCase ==
    /\ turn_start.state = INFO_GATHERING
    /\ Len(Classified) >= 1
    /\ Classified[1].val \in valid_intents \ {"none"}
    /\ LabelIntent(Classified[1].val) # turn_start.intent

\* C2: in every INFO_GATHERING turn where the classifier returns one of the
\* four intent labels and it differs from the tracked intent, at the end of
\* the turn the old slots are discarded, the tracked intent is the returned
\* one and the reply is the one of the new intent's sub-flow.
C2_IntentChangeDispatched ==
    (TurnDone /\ C2_ChangeCase) =>
        /\ current_intent = LabelIntent(Classified[1].val)
        /\ Did("clear_info")
        /\ Classified[1].val # "order_status" => DOMAIN collected_info = {}
        /\ SubflowReply(Classified[1].val, response)

\* C3: in every turn the intent classifier is called at most once, and not
\* at all on the welcome turn.
C3_ClassifiedAtMostOnce ==
    /\ Len(Classified) <= 1
    /\ (turns > 0 /\ turn_start.state = WELCOME) => Len(Classified) = 0

\* C4: the first call on a fresh session returns the fixed welcome text and
\* leaves the phase at INTENT_DETECTION, for every input text, and makes no
\* classification, extraction, sufficiency, generation or data call.
C4_WelcomeTurn ==
    (turns > 0 /\ turn_start.state = WELCOME) =>
        /\ pc = "idle"
        /\ response = welcome_msg
        /\ state = INTENT_DETECTION
        /\ \A i \in DOMAIN events : events[i].op \notin ExternalCalls

\* the welcome turn was made with the empty input of chat_loop
C4_WelcomeTurnReached ==
    /\ TurnDone
    /\ turn_start.state = WELCOME
    /\ turn_start.user_message = ""
    /\ response = welcome_msg

\* C5: once the email slot (or the order_number slot) is set, it is still
\* set at the end of every later turn, except a turn in which the tracked
\* intent changes or an order lookup fails.
C5_SlotMonotonicity ==
    TurnDone =>
        \A key \in {"order_number", "email"} :
            ( /\ Filled(turn_start.info, key)
              /\ ~IntentChangedInTurn
              /\ ~DidWith("lookup", "empty")
              /\ ~DidWith("lookup", "error") )
            => Filled(collected_info, key)

\* C6: when both slots are present and the order lookup returns an empty
\* result set, the reply is the apology naming the submitted order number
\* and email, the slots are empty at the end of the turn, the tracked intent
\* stays ORDER_STATUS and the phase at the end of the turn is INFO_GATHERING.
C6_NotFoundRecovery ==
    (TurnDone /\ DidWith("lookup", "empty")) =>
        /\ Truthy(EventVal("lookup_order_number"))
        /\ Truthy(EventVal("lookup_email"))
        /\ response = order_error_msg(EventVal("lookup_order_number"),
                                      EventVal("lookup_email"))
        /\ DOMAIN collected_info = {}
        /\ current_intent = ORDER_STATUS
        /\ state = INFO_GATHERING

\* the lookup of #W999 for nobody@example.com came back empty
C6_NotFoundReached ==
    /\ TurnDone
    /\ DidWith("lookup", "empty")
    /\ DidWith("lookup_order_number", "#W999")
    /\ DidWith("lookup_email", "nobody@example.com")

\* the edges of the transition table
TransitionTable ==
    {<<WELCOME, INTENT_DETECTION>>,
     <<INTENT_DETECTION, INTENT_DETECTION>>,
     <<INTENT_DETECTION, INFO_GATHERING>>,
     <<INFO_GATHERING, INFO_GATHERING>>,
     <<INFO_GATHERING, INTENT_DETECTION>>,
     <<INFO_GATHERING, DATA_RETRIEVAL>>,
     <<DATA_RETRIEVAL, INTENT_DETECTION>>,
     <<DATA_RETRIEVAL, INFO_GATHERING>>}

\* C7: every change of the phase, the intermediate ones inside a turn
\* included, follows an edge of the transition table; DATA_RETRIEVAL is
\* entered only from INFO_GATHERING.
C7_PhaseEdges ==
    [][state' # state => <<state, state'>> \in TransitionTable]_vars

\* C8: at the end of every turn the slots hold only the keys order_number
\* and email and are non-empty only while the tracked intent is
\* ORDER_STATUS; in a turn in which the tracked intent changes, the slots
\* are emptied before any slot is written for the new intent.
C8_SlotsBelongToIntent ==
    /\ TurnDone =>
           /\ DOMAIN collected_info \subseteq {"order_number", "email"}
           /\ DOMAIN collected_info # {} => current_intent = ORDER_STATUS
    /\ \A i, j \in DOMAIN events :
           ( /\ i < j
             /\ events[i].op = "set_intent"
             /\ events[i].val # IntentBefore(i)
             /\ events[j].op = "write_info" )
           => \E k \in (i + 1)..(j - 1) : events[k].op = "clear_info"

\* a turn that started with a slot filled changed the intent and ended
\* with the slots empty
C8_SlotsDiscardedReached ==
    /\ TurnDone
    /\ DOMAIN turn_start.info # {}
    /\ IntentChangedInTurn
    /\ DOMAIN collected_info = {}

\* C9: whenever classification returns promotions, the reply of that turn is
\* the time-gated Early Risers reply (the discount-code message or the
\* ineligible-window message), and the phase at the end of the turn is
\* INTENT_DETECTION.
C9_PromotionsReply ==
    ( /\ TurnDone
      /\ Len(Classified) >= 1
      /\ Classified[Len(Classified)].val = "promotions" )
    => (response \in EarlyRisersReplies /\ state = INTENT_DETECTION)

\* C10: whenever classification returns other_discounts in INTENT_DETECTION,
\* the reply is the fixed decline message of handle_other_promotion_requests,
\* the tracked intent becomes OTHER_DISCOUNTS and the phase at the end of the
\* turn is INTENT_DETECTION.
C10_OtherDiscountsReply ==
    ( /\ TurnDone
      /\ turn_start.state = INTENT_DETECTION
      /\ Classified = <<Ev("classify", "other_discounts")>> )
    => ( /\ response = handle_other_promotion_requests
         /\ current_intent = "OTHER_DISCOUNTS"
         /\ state = INTENT_DETECTION )

----------------------------------------------------------------------------
\* Early Risers promotion

\* the minute of the day a '%I:%M %p' string names
ReadClock(time_str) ==
    LET value(c) == CHOOSE n \in 0..9 : ToString(n) = c
        hour12 == 10 * value(time_str[1]) + value(time_str[2])
        minute == 10 * value(time_str[4]) + value(time_str[5])
    IN  60 * ((hour12 % 12) + (IF time_str[7] = "PM" THEN 12 ELSE 0)) + minute

\* C11: handle_early_risers_promotion returns the discount-code message
\* exactly when the Pacific time is at or after 08:00 and before 10:00, and
\* otherwise the message that names the 8:00-10:00 window and the current
\* time; 07:59 and 10:00 are ineligible, 08:00 and 09:59 eligible
C11_EarlyRisersWindow ==
    pc = "returned" =>
        LET current_time == locals.current_time
            minute_of_day == 60 * current_time.hour + current_time.minute
            eligible == 8 * 60 <= minute_of_day /\ minute_of_day < 10 * 60
        IN  /\ eligible => response = early_risers_code_msg(locals.discount_code)
            /\ ~eligible =>
                   /\ response.text = early_risers_closed_msg(<<>>).text
                   /\ ReadClock(response.args) = minute_of_day
            /\ response.text = early_risers_code_msg("").text <=> eligible

\* the call at 09:59 returned a discount code
C11_LastEligibleMinute ==
    /\ pc = "returned"
    /\ locals.current_time.hour = 9
    /\ locals.current_time.minute = 59
    /\ response = early_risers_code_msg(locals.discount_code)

----------------------------------------------------------------------------
\* Product sub-flow

\* C12: in the product sub-flow, when the sufficiency check returns true and
\* the generation result is the empty string, the reply is the re-prompt for
\* more detail (not an error message), the phase is INFO_GATHERING and the
\* tracked intent is PRODUCT_RECOMMENDATIONS
C12_EmptyGeneration ==
    (TurnDone /\ DidWith("check_question", "yes") /\ DidWith("generate", "")) =>
        /\ response = no_match_msg
        /\ state = INFO_GATHERING
        /\ current_intent = PRODUCT_RECOMMENDATIONS

\* a turn in which the generation answered with the empty string
C12_EmptyGenerationReached ==
    /\ TurnDone
    /\ DidWith("check_question", "yes")
    /\ DidWith("generate", "")
    /\ response = no_match_msg

----------------------------------------------------------------------------
\* Turns of one session

\* a call of process_message has started and not returned
InProgress(at) == at \notin {"idle", "scheduled", "finished", "raised"}

\* C14: no two calls of process_message on the same session are in progress
\* at the same time, for every caller in the repository, the evaluation
\* harness with its background initialisation task included
C14_TurnsSerialized == ~(InProgress(pc) /\ InProgress(other.pc))

----------------------------------------------------------------------------
\* Failures of the oracle and of the data services

OracleCalls == {"classify", "extract", "check_question", "generate"}

\* the turn asked the oracle, and every call of the oracle raised
EveryOracleCallFailed ==
    /\ \E i \in DOMAIN events : events[i].op \in OracleCalls
    /\ Len(SelectSeq(events, LAMBDA e : e.op = "oracle_error"))
           = Len(SelectSeq(events, LAMBDA e : e.op \in OracleCalls))

\* C15: under any pattern of oracle failures, the oracle failing on every
\* call from some turn on included, the session never stays forever in the
\* same phase while giving the same prompt on every turn.  A handler reads
\* the phase, the intent, the slots and the answers of its calls only, so a
\* turn in which every oracle call fails and which ends with the phase,
\* intent and slots it started with and with the reply of the turn before
\* repeats for as long as the oracle fails: no such turn exists
C15_NoStallUnderFailure ==
    ~(/\ TurnDone
      /\ turns >= 2
      /\ EveryOracleCallFailed
      /\ state = turn_start.state
      /\ current_intent = turn_start.intent
      /\ collected_info = turn_start.info
      /\ response = turn_start.response)

\* C16: when the order lookup fails because the service is unreachable or
\* answers with a transport or HTTP error (not with an empty result), the
\* reply is a generic try-again message and the phase at the end of the
\* turn is INTENT_DETECTION, not INFO_GATHERING
C16_LookupUnavailable ==
    (TurnDone /\ DidWith("lookup", "error")) =>
        /\ response = retrieval_error_msg
        /\ state = INTENT_DETECTION

\* C17: when the product collaborator fails or returns an empty catalog,
\* the product sub-flow (which starts with the fetch) replies with the fixed
\* temporarily-unavailable message, raises nothing, ends the turn in
\* INTENT_DETECTION and leaves the tracked intent and the slots as they were
C17_CatalogUnavailable ==
    [][(/\ pc = "get_all_products"
        /\ Len(events') > Len(events)
        /\ events'[Len(events) + 1].op = "get_all_products"
        /\ events'[Len(events) + 1].val # "products")
       => /\ pc' = "idle"
          /\ response' = product_error_msg
          /\ state' = INTENT_DETECTION
          /\ current_intent' = current_intent
          /\ collected_info' = collected_info]_vars

\* a turn in which the product service answered with an HTTP error
C17_CatalogUnavailableReached ==
    /\ TurnDone
    /\ DidWith("get_all_products", "http error")
    /\ response = product_error_msg
    /\ state = INTENT_DETECTION

----------------------------------------------------------------------------
\* History

IsPrefix(s, t) == Len(s) <= Len(t) /\ SubSeq(t, 1, Len(s)) = s

\* C18: the history at the end of a turn has the history at the start of
\* the turn as a prefix: every step of a turn leaves the history or appends
C18_HistoryAppendOnly ==
    [][IsPrefix(conversation_history, conversation_history')]_vars

\* a turn that appended an utterance and a reply to an earlier history
C18_HistoryGrew ==
    /\ TurnDone
    /\ turns >= 2
    /\ turn_start.user_message # ""
    /\ Len(conversation_history) >= 3
    /\ conversation_history[1].content = welcome_msg

\* the utterance of the turn is the first thing the turn recorded, as a
\* USER entry right before the reply
UtteranceAppendedFirst ==
    /\ Len(events) >= 1
    /\ events[1] = Ev("append", "user")
    /\ \A i \in DOMAIN events : events[i].op = "classify" => i > 1
    /\ Len(conversation_history) >= 2
    /\ conversation_history[Len(conversation_history) - 1]
           = [role |-> "user", content |-> Msg(turn_start.user_message, <<>>)]

\* the reply of the turn is the last entry, an ASSISTANT entry
ReplyAppended ==
    /\ DidWith("append", "assistant")
    /\ Len(conversation_history) >= 1
    /\ conversation_history[Len(conversation_history)]
           = [role |-> "assistant", content |-> response]

\* C19 as stated: in every turn, for every input text and every starting
\* phase, the utterance is appended as a USER entry before the intent
\* oracle is asked and the reply as an ASSISTANT entry before the turn ends
C19_UtteranceThenReply ==
    TurnDone => (UtteranceAppendedFirst /\ ReplyAppended)

\* C19, amended: in every turn that starts in a phase other than WELCOME
\* with a non-empty text, the utterance is appended as a USER entry before
\* the intent oracle is asked; the first turn and a turn with an empty text
\* append no USER entry; in every turn the reply is appended as an
\* ASSISTANT entry before the turn ends
C19_RecordedUtteranceThenReply ==
    TurnDone =>
        /\ IF turn_start.state # WELCOME /\ turn_start.user_message # ""
           THEN UtteranceAppendedFirst
           ELSE ~DidWith("append", "user")
        /\ ReplyAppended

\* a turn in INFO_GATHERING with a text, recorded before the classification
C19_RecordedTurnReached ==
    /\ TurnDone
    /\ turn_start.state = INFO_GATHERING
    /\ turn_start.user_message = "hello"
    /\ UtteranceAppendedFirst
    /\ Did("classify")
    /\ ReplyAppended

----------------------------------------------------------------------------
\* Termination of a call

\* C20: under every combination of oracle failures, data-service failures
\* and not-found results, every call of process_message returns a reply
\* text without raising and ends with the phase one of the four phases; no
\* failure ends the session
C20_EveryCallReturns ==
    /\ pc # "raised"
    /\ state \in AgentState
    /\ pc # "idle" => ENABLED Next
    /\ TurnDone => response.text # ""

\* a turn in which the classifier raised and the order service was unreachable
C20_FailuresReached ==
    /\ TurnDone
    /\ DidWith("oracle_error", "classify")
    /\ DidWith("lookup", "error")
    /\ response.text # ""
    /\ state \in AgentState

----------------------------------------------------------------------------
\* Phases

\* C21: once the first turn has been processed, the phase is never WELCOME
\* again in any later state of the session, in particular not after a
\* failed order lookup or a failed oracle call
C21_WelcomeOnlyOnce == turns >= 1 => state # WELCOME

\* a turn in which the classifier raised and the order lookup failed
C21_AfterFailures ==
    /\ TurnDone
    /\ DidWith("oracle_error", "classify")
    /\ Did("lookup")
    /\ ~DidWith("lookup", "found")
    /\ state = INFO_GATHERING

----------------------------------------------------------------------------
\* Order sub-flow

\* the value logged with the last event `op` of log
LastVal(log, op) ==
    log[CHOOSE i \in DOMAIN log :
            log[i].op = op /\ \A j \in DOMAIN log : j > i => log[j].op # op].val

\* the merge wrote `value` to slot `key`, or left the slot as it was
Merged(before, after, key, value) ==
    IF Truthy(value)
    THEN key \in DOMAIN after /\ after[key] = value
    ELSE /\ key \in DOMAIN after <=> key \in DOMAIN before
         /\ Get(after, key) = Get(before, key)

\* C22: in the order sub-flow, the merge of an extraction result into the
\* slots writes a slot only when the extracted value is non-null and
\* non-empty: a present slot keeps its value when the extraction returns
\* null for it, and takes the new value when the extraction returns a
\* different non-null value
C22_MergeWritesNonNull ==
    [][pc = "_extract_order_details_with_llm" /\ pc' # pc
       => /\ Merged(collected_info, collected_info', "order_number",
                    LastVal(events', "extracted_order_number"))
          /\ Merged(collected_info, collected_info', "email",
                    LastVal(events', "extracted_email"))
          /\ DOMAIN collected_info' \subseteq
                 DOMAIN collected_info \cup {"order_number", "email"}]_vars

\* a turn whose extraction named another order number and no email: the
\* order number is replaced and the email slot is as it was
C22_SlotReplaced ==
    /\ TurnDone
    /\ Get(turn_start.info, "order_number") = "#W001"
    /\ DidWith("extracted_order_number", "#W999")
    /\ DidWith("extracted_email", None)
    /\ Get(collected_info, "order_number") = "#W999"
    /\ Get(collected_info, "email") = Get(turn_start.info, "email")

BothSlots(info) == Filled(info, "order_number") /\ Filled(info, "email")

\* C23: the order lookup collaborator is called only in a turn where, after
\* the merge, both order_number and email are present, and it is called
\* with exactly those two slot values; in a turn where a slot is missing no
\* lookup is made and the phase does not become DATA_RETRIEVAL
C23_LookupNeedsBothSlots ==
    [][/\ (pc = "_extract_order_details_with_llm" /\ pc' # pc) =>
              IF BothSlots(collected_info')
              THEN pc' = "_handle_data_retrieval" /\ state' = DATA_RETRIEVAL
              ELSE pc' = "idle" /\ state' = INFO_GATHERING
       /\ (pc' = "_handle_data_retrieval" /\ pc' # pc) =>
              pc = "_extract_order_details_with_llm"
       /\ (state' = DATA_RETRIEVAL /\ state' # state) =>
              pc = "_extract_order_details_with_llm"
       /\ (pc' = "get_order_details" /\ pc' # pc) =>
              /\ pc = "_handle_data_retrieval"
              /\ BothSlots(collected_info)
              /\ collected_info' = collected_info
              /\ locals'.order_number = collected_info["order_number"]
              /\ locals'.email = collected_info["email"]
              /\ LastVal(events', "lookup_order_number") = collected_info["order_number"]
              /\ LastVal(events', "lookup_email") = collected_info["email"]]_vars

\* the lookup is in progress, with the two slots of the session
C23_LookupCalled ==
    /\ pc = "get_order_details"
    /\ state = DATA_RETRIEVAL
    /\ collected_info["order_number"] = "#W999"
    /\ locals.order_number = "#W999"
    /\ locals.email = collected_info["email"]
    /\ Did("extract")

\* C24: in an order-sub-flow turn with a slot missing, the prompt is
\* determined by which slots are present: both missing gives the prompt
\* asking for order number and email; only the email present gives the
\* prompt that echoes the email and asks for the order number; only the
\* order number present gives the prompt that echoes the order number and
\* asks for the email; in all three cases the turn ends in INFO_GATHERING
C24_MissingSlotPrompt ==
    (TurnDone /\ Did("extract") /\ ~Did("lookup_order_number")) =>
        /\ ~BothSlots(collected_info)
        /\ state = INFO_GATHERING
        /\ response.text =
               IF Filled(collected_info, "email")
               THEN info_request_order_number_msg("").text
               ELSE IF Filled(collected_info, "order_number")
               THEN info_request_email_msg("").text
               ELSE info_request_both_msg.text
        /\ response.args =
               IF Filled(collected_info, "email")
               THEN <<collected_info["email"]>>
               ELSE IF Filled(collected_info, "order_number")
               THEN <<collected_info["order_number"]>>
               ELSE <<>>

\* a turn that knows the email only and asks for the order number
C24_OrderNumberAsked ==
    /\ TurnDone
    /\ Did("extract")
    /\ Filled(collected_info, "email")
    /\ ~Filled(collected_info, "order_number")
    /\ response = info_request_order_number_msg("nobody@example.com")
    /\ state = INFO_GATHERING

----------------------------------------------------------------------------
\* Product sub-flow: order of the calls and meaning of the answers

\* C25: in the product sub-flow the sufficiency check is made first and the
\* catalog is fetched from the product collaborator only in turns where the
\* check returned sufficient; when the context is insufficient the reply is
\* the more-detail prompt and the phase stays INFO_GATHERING whether or not
\* the product collaborator is available
C25_CheckBeforeCatalog ==
    /\ \A i \in DOMAIN events :
           events[i].op = "get_all_products" =>
               \E j \in 1..(i - 1) : events[j] = Ev("check_question", "yes")
    /\ (pc = "get_all_products") => DidWith("check_question", "yes")
    /\ (TurnDone /\ DidWith("check_question", "no")) =>
           /\ response = prompt_msg
           /\ state = INFO_GATHERING
           /\ ~Did("get_all_products")

\* C26: when the sufficiency oracle call fails, the check counts as
\* sufficient and the turn proceeds to answer generation; when it answers
\* insufficient, the turn replies with the more-detail prompt, makes no
\* generation call, and ends in INFO_GATHERING
C26_SufficiencyFailsOpen ==
    /\ DidWith("oracle_error", "check_question") =>
           /\ DidWith("check_question", "yes")
           /\ pc = "_generate_product_matching_response" \/ Did("generate")
    /\ DidWith("check_question", "no") =>
           /\ TurnDone
           /\ response = prompt_msg
           /\ state = INFO_GATHERING
           /\ ~Did("generate")

\* a turn whose sufficiency call raised and whose generation was made
C26_FailedCheckGenerated ==
    /\ TurnDone
    /\ DidWith("oracle_error", "check_question")
    /\ DidWith("generate", product_answer)
    /\ response = Msg(product_answer, <<>>)

\* C27: every generation result that is non-empty after trimming
\* whitespace, a result of one or two characters included, is returned to
\* the user unchanged with the phase moving to INTENT_DETECTION; only a
\* result of length zero counts as no match
C27_ShortResultReturned ==
    \A output_text \in GeneratorOutputs \ {OracleError} :
        (TurnDone /\ DidWith("generate", output_text)) =>
            IF strip(output_text) = ""
            THEN response = no_match_msg /\ state = INFO_GATHERING
            ELSE response = Msg(strip(output_text), <<>>) /\ state = INTENT_DETECTION

----------------------------------------------------------------------------
\* Intent classification

\* C28: the intent classifier result is always one of order_status,
\* product_recommendations, promotions, other_discounts and none: a label
\* outside this set, and any failure of the oracle call, is turned into
\* none, and no exception leaves the classification step
C28_ClassifierResultValid ==
    /\ pc # "raised"
    /\ \A i \in DOMAIN events :
           events[i].op = "classify" =>
               LET labels == {"order_status", "product_recommendations", "promotions",
                              "other_discounts", "none"}
                   answer == events[i - 1]
               IN  /\ events[i].val \in labels
                   /\ answer.op = "oracle_error" => events[i].val = "none"
                   /\ answer.op = "output" =>
                          events[i].val = IF strip_lower(answer.val) \in labels
                                          THEN strip_lower(answer.val)
                                          ELSE "none"

\* a turn whose classifier answered with a label outside the set
C28_UnknownLabelReached ==
    /\ TurnDone
    /\ \E i \in DOMAIN events :
           /\ events[i] = Ev("output", "refund")
           /\ events[i + 1] = Ev("classify", "none")
    /\ response = clarification_msg

\* C29: in a turn processed in INTENT_DETECTION where classification
\* returns none, the reply is the clarification prompt, the phase stays
\* INTENT_DETECTION, and the tracked intent and the slots are left
\* unchanged; no extraction, sufficiency, generation or data call is made
C29_NoneLeavesSession ==
    (/\ TurnDone
     /\ turn_start.state = INTENT_DETECTION
     /\ Len(Classified) >= 1
     /\ Classified[1].val = "none") =>
        /\ response = clarification_msg
        /\ state = INTENT_DETECTION
        /\ current_intent = turn_start.intent
        /\ collected_info = turn_start.info
        /\ \A i \in DOMAIN events :
               events[i].op \notin ExternalCalls \ {"classify"}
        /\ Len(Classified) = 1

\* a turn after an answered order request that was classified none
C29_NoneAfterOrder ==
    /\ TurnDone
    /\ turn_start.state = INTENT_DETECTION
    /\ turn_start.intent = ORDER_STATUS
    /\ BothSlots(turn_start.info)
    /\ Classified[1].val = "none"
    /\ current_intent = ORDER_STATUS
    /\ BothSlots(collected_info)
    /\ response = clarification_msg

----------------------------------------------------------------------------
\* Order reply

Range(s) == {s[i] : i \in DOMAIN s}

\* C30: when the order lookup succeeds, the reply of that turn is the
\* order-information reply (order number, readable status, tracking
\* information when a tracking number exists, the ordered products) ending
\* with an offer of further help, and the turn ends in INTENT_DETECTION
C30_OrderFoundReply ==
    (TurnDone /\ DidWith("lookup", "found")) =>
        LET status == LastVal(events, "order_status")
            tracking == LastVal(events, "order_tracking")
        IN  /\ state = INTENT_DETECTION
            /\ response.text = order_found_msg("", "", "", <<>>).text
            /\ response.args[1] = LastVal(events, "lookup_order_number")
            /\ response.args[3] =
                   (CASE status = "delivered" -> "The order has been delivered"
                      [] status = "in-transit" -> "The order is on its way")
            /\ IF Truthy(tracking)
               THEN response.args[2] = tracking
               ELSE response.args[2] = ""
            /\ Range(Order("", "", "", "").ProductsOrdered) \subseteq Range(response.args)

\* a turn that found a delivered order with a tracking number
C30_TrackedOrderFound ==
    /\ TurnDone
    /\ DidWith("lookup", "found")
    /\ DidWith("order_status", "delivered")
    /\ LastVal(events, "order_tracking") = "TRK123456789"
    /\ response.args[2] = "TRK123456789"
    /\ state = INTENT_DETECTION

\* C31: on every turn after the welcome turn, the context given to the
\* intent classifier is the entire history of the session in order, for
\* histories of every length, histories of more than 25 entries included
C31_ContextIsEntireHistory ==
    pc = "recent_conversation"
        => response = _format_conversation_text(conversation_history)

\* the external call a suspended turn is waiting for
Awaited(at) ==
    CASE at \in {"_handle_intent_detection", "_handle_info_gathering"} -> "classify"
      [] at = "_extract_order_details_with_llm" -> "extract"
      [] at = "get_order_details" -> "lookup"
      [] at = "get_all_products" -> "get_all_products"
      [] at = "_check_for_product_question" -> "check_question"
      [] at = "_generate_product_matching_response" -> "generate"

\* the external calls of the turn that have returned, in order
Returned ==
    LET calls == SelectSeq(events, LAMBDA e : e.op \in ExternalCalls)
    IN  [i \in DOMAIN calls |-> calls[i].op]

\* the orders in which a turn makes its external calls
CallOrders ==
    { first \o rest :
        first \in {<<"classify">>, <<"classify", "classify">>},
        rest \in {<<"extract", "lookup">>,
                  <<"get_all_products", "check_question", "generate">>} }

InCallOrder(calls) == \E order \in CallOrders : IsPrefix(calls, order)

\* C32: within one turn the external calls are strictly sequential: the
\* calls that have returned follow the order of the turn, a call is started
\* only when every earlier call of the turn has returned, and in an order
\* turn the lookup starts after the extraction has returned
C32_CallsSequential ==
    /\ InCallOrder(Returned)
    /\ pc \in AwaitPoints => InCallOrder(Append(Returned, Awaited(pc)))
    /\ \A i \in DOMAIN events :
           events[i].op = "lookup_order_number"
               => \E j \in 1..(i - 1) : events[j].op = "extract"

C32_OrderTurnDone ==
    TurnDone /\ Returned = <<"classify", "classify", "extract", "lookup">>

\* C33: when the generation call fails, no exception reaches the caller:
\* the reply of that turn is the fixed sentence of
\* _generate_product_matching_response, the turn ends in INTENT_DETECTION,
\* and the tracked intent and the slots are as they were
C33_GenerationFailureHandled ==
    [][pc = "_generate_product_matching_response"
           /\ Ev("oracle_error", "generate") \in Range(events')
       => /\ pc' = "idle"
          /\ response' = Msg(generation_error_text, <<>>)
          /\ conversation_history'[Len(conversation_history')].content = response'
          /\ state' = INTENT_DETECTION
          /\ current_intent' = current_intent
          /\ collected_info' = collected_info]_vars

C33_GenerationFailed ==
    /\ TurnDone
    /\ DidWith("oracle_error", "generate")
    /\ response = Msg(generation_error_text, <<>>)
    /\ current_intent = PRODUCT_RECOMMENDATIONS

\* C34: with turns processed one at a time, every turn ends in
\* INTENT_DETECTION or INFO_GATHERING: DATA_RETRIEVAL is only an intermediate
\* value inside an order turn, no turn starts in DATA_RETRIEVAL, and the
\* final fallback reply of process_message is never returned
C34_TurnEndPhases ==
    /\ TurnDone => state \in {INTENT_DETECTION, INFO_GATHERING}
    /\ state = DATA_RETRIEVAL =>
           /\ pc \in {"_handle_data_retrieval", "get_order_details"}
           /\ current_intent = ORDER_STATUS
           /\ Did("extract")
    /\ turns > 0 => turn_start.state # DATA_RETRIEVAL
    /\ TurnDone => response # process_message_fallback

\* an order turn went through DATA_RETRIEVAL and has ended
C34_ThroughDataRetrieval ==
    /\ TurnDone
    /\ DidWith("set_state", DATA_RETRIEVAL)
    /\ Did("lookup")
    /\ state \in {INTENT_DETECTION, INFO_GATHERING}

\* a turn that started in INFO_GATHERING in which _handle_info_gathering
\* detected an intent change: its classification mapped to an intent other
\* than NONE and than the tracked one
C35_ChangeDetected ==
    /\ turn_start.state = INFO_GATHERING
    /\ Len(Classified) >= 1
    /\ intent_mapping(Classified[1].val) \notin {NONE, turn_start.intent}

\* C35: in a turn where an intent change is detected in INFO_GATHERING, the
\* classifier is asked a second time, after the tracked intent has been
\* switched and the slots emptied; the sub-flow of the turn is the one of
\* the second answer, and when the second answer is none the turn ends with
\* the clarification prompt in INTENT_DETECTION and the tracked intent is
\* the first answer
C35_SecondClassification ==
    C35_ChangeDetected =>
        /\ (Len(Classified) = 1 /\ pc # "raised") =>
               /\ pc = "_handle_intent_detection"
               /\ current_intent = intent_mapping(Classified[1].val)
               /\ collected_info = EmptyInfo
        /\ TurnDone =>
               /\ Len(Classified) = 2
               /\ LET first == Classified[1].val
                      second == Classified[2].val
                  IN  /\ second = "none" =>
                             /\ response = clarification_msg
                             /\ state = INTENT_DETECTION
                             /\ current_intent = intent_mapping(first)
                      /\ second = "order_status" =>
                             /\ Did("extract") /\ ~Did("get_all_products")
                             /\ OrderReply(response)
                             /\ current_intent = ORDER_STATUS
                      /\ second = "product_recommendations" =>
                             /\ Did("get_all_products") /\ ~Did("extract")
                             /\ response \in ProductReplies
                             /\ current_intent = PRODUCT_RECOMMENDATIONS
                      /\ second = "promotions" =>
                             /\ response = promotions_msg
                             /\ current_intent = PROMOTIONS

\* the order flow was left for products, and the second answer was none
C35_SecondAnswerNone ==
    /\ TurnDone
    /\ C35_ChangeDetected
    /\ turn_start.intent = ORDER_STATUS
    /\ Len(Classified) = 2
    /\ Classified[1].val = "product_recommendations"
    /\ Classified[2].val = "none"
    /\ current_intent = PRODUCT_RECOMMENDATIONS
    /\ response = clarification_msg

\* C36: with turns processed one at a time, at the end of every turn the
\* phase INFO_GATHERING implies that the tracked intent is ORDER_STATUS or
\* PRODUCT_RECOMMENDATIONS, and the "start over" reply of
\* _handle_info_gathering is never given
C36_GatheringHasSubflow ==
    TurnDone =>
        /\ state = INFO_GATHERING =>
               current_intent \in {ORDER_STATUS, PRODUCT_RECOMMENDATIONS}
        /\ response # info_fallback_msg

\* a turn that started in INFO_GATHERING ran the product sub-flow of the
\* tracked intent and ended in INFO_GATHERING again
C36_GatheringContinued ==
    /\ TurnDone
    /\ turn_start.state = INFO_GATHERING
    /\ turn_start.intent = PRODUCT_RECOMMENDATIONS
    /\ Len(Classified) = 1
    /\ Classified[1].val = "none"
    /\ current_intent = PRODUCT_RECOMMENDATIONS
    /\ state = INFO_GATHERING

\* an order slot is set while the tracked intent is not ORDER_STATUS
SlotWithoutOrderIntent ==
    /\ \E key \in {"order_number", "email"} : Filled(collected_info, key)
    /\ current_intent # ORDER_STATUS

\* C37: "slots are non-empty only while the tracked intent is ORDER_STATUS"
\* is kept only under serialized turns. When two process_message calls on
\* one session interleave at the oracle suspension points, a state with an
\* order slot set and another tracked intent is reached, and every step
\* that reaches one is an extraction that resumes, in a turn that entered
\* the order sub-flow with ORDER_STATUS, after the other call switched the
\* intent and emptied the slots
C37_RaceWritesEmptiedSlots ==
    [][(SlotWithoutOrderIntent' /\ ~SlotWithoutOrderIntent)
       => /\ pc = "_extract_order_details_with_llm"
          /\ other.task # "none" /\ other.pc # "scheduled"
          /\ IntentBefore(Len(events) + 1) = ORDER_STATUS
          /\ current_intent # ORDER_STATUS
          /\ current_intent' = current_intent
          /\ collected_info = EmptyInfo
          /\ \E i \in DOMAIN events' : events'[i].op = "write_info"]_vars

\* the extraction of one call wrote a slot after the other call had made
\* the tracked intent PRODUCT_RECOMMENDATIONS
C37_SlotUnderProductIntent ==
    /\ SlotWithoutOrderIntent
    /\ current_intent = PRODUCT_RECOMMENDATIONS
    /\ Did("write_info")
    /\ LastVal(events, "set_intent") = ORDER_STATUS
    /\ other.pc = "get_all_products"

\* the turn before this one ended with the not-found apology
C38_AfterNotFound ==
    /\ turns > 0
    /\ turn_start.state = INFO_GATHERING
    /\ turn_start.response.text = order_error_msg("", "").text

\* C38: after a not-found turn the failed order number and email are not
\* remembered: the next turn starts with empty slots and fills them from
\* the extraction's answer alone, so when the answer has both fields (the
\* failed pair again included) the lookup is made with exactly them in that
\* turn, with no missing-slot prompt, and when it lacks one the turn asks
\* for it, whatever the failed pair was
C38_FailedPairForgotten ==
    C38_AfterNotFound =>
        /\ turn_start.info = EmptyInfo
        /\ (TurnDone /\ Did("extract")) =>
               LET order_number == EventVal("extracted_order_number")
                   email == EventVal("extracted_email")
               IN  IF Truthy(order_number) /\ Truthy(email)
                   THEN /\ DidWith("lookup_order_number", order_number)
                        /\ DidWith("lookup_email", email)
                        /\ Did("lookup")
                        /\ response.text \notin {info_request_both_msg.text,
                                                 info_request_order_number_msg("").text,
                                                 info_request_email_msg("").text,
                                                 missing_info_msg.text}
                   ELSE /\ ~Did("lookup_order_number")
                        /\ ~Did("lookup")
                        /\ response =
                               IF Truthy(order_number) THEN info_request_email_msg(order_number)
                               ELSE IF Truthy(email) THEN info_request_order_number_msg(email)
                               ELSE info_request_both_msg

\* the extraction gave the failed pair again and the lookup was repeated
\* with it
C38_LookupRepeated ==
    /\ TurnDone
    /\ C38_AfterNotFound
    /\ Did("lookup")
    /\ EventVal("extracted_order_number") = turn_start.response.args[1]
    /\ EventVal("extracted_email") = turn_start.response.args[2]
    /\ EventVal("lookup_order_number") = turn_start.response.args[1]
    /\ EventVal("lookup_email") = turn_start.response.args[2]

\* the roles of the entries the turn has appended to the history, in order
AppendedRoles ==
    [i \in 1..(Len(conversation_history) - turn_start.history_length) |->
        conversation_history[turn_start.history_length + i].role]

\* C39: every turn appends exactly one ASSISTANT entry to the history; that
\* entry is the last entry of the history when the turn ends and its text
\* is the reply returned by process_message; at most one USER entry is
\* appended per turn, before it
C39_OneReplyPerTurn ==
    TurnDone =>
        /\ AppendedRoles \in {<<"assistant">>, <<"user", "assistant">>}
        /\ conversation_history[Len(conversation_history)]
               = [role |-> "assistant", content |-> response]
        /\ AppendedRoles = <<"user", "assistant">> =>
               conversation_history[Len(conversation_history) - 1].content
                   = Msg(turn_start.user_message, <<>>)

\* a turn with a text that went through the order sub-flow appended the
\* utterance and then its one reply
C39_UtteranceAndReply ==
    /\ TurnDone
    /\ AppendedRoles = <<"user", "assistant">>
    /\ Did("extract")
    /\ turn_start.history_length >= 3

\* how many times the external call has returned in the turn
Calls(call) == Len(SelectSeq(events, LAMBDA e : e.op = call))

\* C40: provided every external call returns, every call of process_message
\* terminates after a bounded number of external calls: a turn in progress
\* always has a next step, and makes at most two classifications, one
\* extraction, one order lookup, one catalog fetch, one sufficiency check
\* and one generation; the second classification is the one re-dispatch
\* after an intent change
C40_BoundedCalls ==
    /\ InProgress(pc) => ENABLED Next
    /\ Calls("classify") <= 2
    /\ \A call \in ExternalCalls \ {"classify"} : Calls(call) <= 1
    /\ Calls("classify") = 2 => C35_ChangeDetected
    /\ Len(Returned) <= 5

\* the longest turn: two classifications and the three calls of the
\* product sub-flow
C40_LongestTurn ==
    /\ TurnDone
    /\ Returned = <<"classify", "classify", "get_all_products", "check_question", "generate">>

====
